---- MODULE Spec2Model ----
(***************************************************************************)
(* Model of ply's code generator, src/src/compile.c: the instruction       *)
(* buffer, the value transfer engine (emit_xfer and its helpers), the      *)
(* zero-fill, emit_map_load, emit_assign, the dispatch (compile_post under *)
(* node_walk), compile_pred and compile_probe.                             *)
(*                                                                         *)
(* A 64-bit integer is the record [hi, lo] of its two 32-bit halves, each  *)
(* held as the signed 32-bit number with the same bit pattern, so that     *)
(* every width of the C code (int64_t literal, __s32 immediate) is kept.   *)
(***************************************************************************)
EXTENDS Integers, Sequences, FiniteSets, TLC

VARIABLES node, prog, pc, stmt, err, diag, ret, trail, failed

vars == <<node, prog, pc, stmt, err, diag, ret, trail, failed>>

(***************************************************************************)
(* Integers of the C code.                                                 *)
(***************************************************************************)
MaxInt32 == 2147483647
MinInt32 == (-MaxInt32) - 1

I64(h, l) == [hi |-> h, lo |-> l]

\* unsigned order of two 32-bit patterns held as signed numbers
ULt32(x, y) ==
    IF (x < 0) = (y < 0) THEN x < y ELSE y < 0

\* a > b on int64_t
GT64(a, b) ==
    \/ a.hi > b.hi
    \/ a.hi = b.hi /\ ULt32(b.lo, a.lo)

\* the constant 0xffffffff, converted to int64_t by the comparison
UINT32_MAX64 == I64(0, -1)

\* (*integer) >> 32 on int64_t, then converted to the __s32 immediate
Sar32(x) == x.hi

\* an int64_t converted to the __s32 immediate: its low 32 bits
Trunc32(x) == x.lo

\* the memory image of an int64_t as 32-bit words (int32_t *from)
Words(x) == <<x.lo, x.hi>>

\* the int64_t read through (int64_t *) at the start of a word image
Deref64(w) == I64(w[2], w[1])

(***************************************************************************)
(* Errors, locations, node kinds.                                          *)
(***************************************************************************)
EINVAL == 22
ENOSYS == 38

LOC_NOWHERE == "LOC_NOWHERE"
LOC_REG     == "LOC_REG"
LOC_STACK   == "LOC_STACK"

TYPE_NONE   == "TYPE_NONE"
TYPE_SCRIPT == "TYPE_SCRIPT"
TYPE_PROBE  == "TYPE_PROBE"
TYPE_CALL   == "TYPE_CALL"
TYPE_ASSIGN == "TYPE_ASSIGN"
TYPE_RETURN == "TYPE_RETURN"
TYPE_BINOP  == "TYPE_BINOP"
TYPE_NOT    == "TYPE_NOT"
TYPE_MAP    == "TYPE_MAP"
TYPE_REC    == "TYPE_REC"
TYPE_INT    == "TYPE_INT"
TYPE_STR    == "TYPE_STR"

ALU_OP_MOV == "mov"
ALU_OP_ADD == "add"
ALU_OP_SUB == "sub"
ALU_OP_OR  == "or"
ALU_OP_LSH == "lsh"
JMP_JA     == "ja"
JMP_JEQ    == "jeq"
JMP_JNE    == "jne"

BPF_REG_0  == 0
BPF_REG_1  == 1
BPF_REG_2  == 2
BPF_REG_3  == 3
BPF_REG_4  == 4
BPF_REG_9  == 9
BPF_REG_10 == 10

BPF_PSEUDO_MAP_FD == 1

BPF_FUNC_map_lookup_elem == 1
BPF_FUNC_map_update_elem == 2
BPF_FUNC_probe_read      == 4
BPF_FUNC_ktime_get_ns    == 5

(***************************************************************************)
(* Instructions: the fixed-width record {code, dst, src, off, imm}.        *)
(***************************************************************************)
INSN(code, dst, src, off, imm) ==
    [code |-> code, dst_reg |-> dst, src_reg |-> src, off |-> off, imm |-> imm]

MOV(dst, src)              == INSN(<<"alu64", ALU_OP_MOV, "x">>, dst, src, 0, 0)
MOV_IMM(dst, imm)          == INSN(<<"alu64", ALU_OP_MOV, "k">>, dst, 0, 0, imm)
ALU(op, dst, src)          == INSN(<<"alu64", op, "x">>, dst, src, 0, 0)
ALU_IMM(op, dst, imm)      == INSN(<<"alu64", op, "k">>, dst, 0, 0, imm)
STW_IMM(dst, off, imm)     == INSN(<<"st", "w", "k">>, dst, 0, off, imm)
STXDW(dst, off, src)       == INSN(<<"stx", "dw", "x">>, dst, src, off, 0)
LDXDW(dst, off, src)       == INSN(<<"ldx", "dw", "x">>, dst, src, off, 0)
JMP_IMM(op, dst, imm, off) == INSN(<<"jmp", op, "k">>, dst, 0, off, imm)
CALL(fn)                   == INSN(<<"jmp", "call", "k">>, 0, 0, 0, fn)
EXIT                       == INSN(<<"jmp", "exit", "k">>, 0, 0, 0, 0)

\* emit: *(prog->ip)++ = insn
emit(p, insn) == Append(p, insn)

\* what an emitter hands back: the buffer, the int it returns, the _e() line
Res(p, e, d) == [prog |-> p, err |-> e, diag |-> d]

Ok(p) == Res(p, 0, "")

(***************************************************************************)
(* Nodes.  dyn is the resolved-value descriptor the annotation pass left   *)
(* on the node: location, register, frame offset, size.                    *)
(***************************************************************************)
Dyn(loc, reg, addr, size) == [loc |-> loc, reg |-> reg, addr |-> addr, size |-> size]

SizeofInt64 == 8
SizeofInt32 == 4

IntNode(v, d)    == [type |-> TYPE_INT, integer |-> v, dyn |-> d]
StrNode(w, d)    == [type |-> TYPE_STR, string |-> w, dyn |-> d]
RecNode(kids, d) == [type |-> TYPE_REC, vargs |-> kids, dyn |-> d]
\* a map reference: its key record, its map's fd, and what n->parent is
MapNode(rec, fd, parent, d) ==
    [type |-> TYPE_MAP, rec |-> rec, fd |-> fd, parent |-> parent, dyn |-> d]
AssignNode(op, lval, expr, d) ==
    [type |-> TYPE_ASSIGN, op |-> op, lval |-> lval, expr |-> expr, dyn |-> d]
\* a call: pvdr is what its provider's compile() does (instructions, result)
CallNode(pvdr, kids, d) ==
    [type |-> TYPE_CALL, pvdr |-> pvdr, vargs |-> kids, dyn |-> d]
\* not, return: one operand; binop: two
UnaryNode(t, expr, d)      == [type |-> t, expr |-> expr, dyn |-> d]
BinopNode(left, right, d)  == [type |-> TYPE_BINOP, left |-> left, right |-> right, dyn |-> d]
\* probe, script, none reaching the walker: only the kind and dyn are read
PlainNode(t, d)   == [type |-> t, dyn |-> d]
\* a null node_t pointer
NULL == [type |-> "NULL"]

(***************************************************************************)
(* Value transfer engine.                                                  *)
(***************************************************************************)
DestUnknown == "destination of %s is unknown"
SrcUnknown  == "source of %s is unknown"
StackStack  == "stack<->stack transfer, to %s, not implemented"

\* the LOC_STACK loop: one STW_IMM per 4-byte stride of size bytes
RECURSIVE StoreWords(_, _, _, _, _)
StoreWords(p, at, from, i, size) ==
    IF size = 0 THEN p
    ELSE StoreWords(emit(p, STW_IMM(BPF_REG_10, at, from[i])),
                    at + SizeofInt32, from, i + 1, size - SizeofInt32)

emit_xfer_literal(p, to, from, size) ==
    CASE to.dyn.loc = LOC_NOWHERE -> Res(p, -EINVAL, DestUnknown)
      [] to.dyn.loc = LOC_REG ->
            LET integer == Deref64(from) IN
            IF GT64(integer, UINT32_MAX64)
            THEN Ok(emit(emit(emit(p,
                    MOV_IMM(to.dyn.reg, Sar32(integer))),
                    ALU_IMM(ALU_OP_LSH, to.dyn.reg, 32)),
                    ALU_IMM(ALU_OP_OR, to.dyn.reg, Sar32(integer))))
            ELSE Ok(emit(p, MOV_IMM(to.dyn.reg, Trunc32(integer))))
      [] to.dyn.loc = LOC_STACK -> Ok(StoreWords(p, to.dyn.addr, from, 1, size))
      [] OTHER -> Res(p, -EINVAL, "")

\* emit_xfer_reg taking an unresolved destination for nothing to do
emit_xfer_reg_nowhere_noop(p, to, from) ==
    CASE to.dyn.loc = LOC_NOWHERE -> Ok(p)
      [] to.dyn.loc = LOC_REG ->
            IF to.dyn.reg = from THEN Ok(p)
            ELSE Ok(emit(p, MOV(to.dyn.reg, from)))
      [] to.dyn.loc = LOC_STACK -> Ok(emit(p, STXDW(BPF_REG_10, to.dyn.addr, from)))
      [] OTHER -> Res(p, -EINVAL, "")

emit_xfer_reg(p, to, from) ==
    CASE to.dyn.loc = LOC_NOWHERE -> Res(p, -EINVAL, DestUnknown)
      [] to.dyn.loc = LOC_REG ->
            IF to.dyn.reg = from THEN Ok(p)
            ELSE Ok(emit(p, MOV(to.dyn.reg, from)))
      [] to.dyn.loc = LOC_STACK -> Ok(emit(p, STXDW(BPF_REG_10, to.dyn.addr, from)))
      [] OTHER -> Res(p, -EINVAL, "")

emit_xfer_stack(p, to, from) ==
    CASE to.dyn.loc = LOC_NOWHERE -> Res(p, -EINVAL, DestUnknown)
      [] to.dyn.loc = LOC_REG -> Ok(emit(p, LDXDW(to.dyn.reg, from, BPF_REG_10)))
      [] to.dyn.loc = LOC_STACK -> Res(p, -ENOSYS, StackStack)
      [] OTHER -> Res(p, -EINVAL, "")

emit_xfer(p, to, from) ==
    CASE from.type = TYPE_INT ->
            emit_xfer_literal(p, to, Words(from.integer), SizeofInt64)
      [] from.type = TYPE_STR ->
            emit_xfer_literal(p, to, from.string, from.dyn.size)
      [] OTHER ->
            CASE from.dyn.loc = LOC_NOWHERE -> Res(p, -EINVAL, SrcUnknown)
              [] from.dyn.loc = LOC_REG -> emit_xfer_reg(p, to, from.dyn.reg)
              [] from.dyn.loc = LOC_STACK -> emit_xfer_stack(p, to, from.dyn.addr)
              [] OTHER -> Res(p, -EINVAL, "")

(***************************************************************************)
(* Aggregate zero-fill and the map access protocol.                        *)
(***************************************************************************)
\* the loop of emit_stack_zero: for (i = 0; i < size; i += sizeof(int64_t))
RECURSIVE ZeroStores(_, _, _)
ZeroStores(p, n, i) ==
    IF i < n.dyn.size
    THEN ZeroStores(emit(p, STXDW(BPF_REG_10, n.dyn.addr + i, BPF_REG_0)),
                    n, i + SizeofInt64)
    ELSE p

emit_stack_zero(p, n) ==
    Ok(ZeroStores(emit(p, MOV_IMM(BPF_REG_0, 0)), n, 0))

node_map_get_fd(n) == n.fd

\* the wide load of a map handle into a register
emit_ld_mapfd(p, reg, fd) ==
    emit(p, INSN(<<"ld", "dw", "imm">>, reg, BPF_PSEUDO_MAP_FD, 0, fd))

\* emit_map_load with the null-check branch one instruction short
emit_map_load_short_branch(p, n) ==
    IF n.parent.type = TYPE_ASSIGN /\ n.parent.op = ALU_OP_MOV
    THEN Ok(p)
    ELSE
      LET p0 == emit_stack_zero(p, n).prog
          p1 == emit_ld_mapfd(p0, BPF_REG_1, node_map_get_fd(n))
          p2 == emit(p1, MOV(BPF_REG_2, BPF_REG_10))
          p3 == emit(p2, ALU_IMM(ALU_OP_ADD, BPF_REG_2, n.rec.dyn.addr))
          p4 == emit(p3, CALL(BPF_FUNC_map_lookup_elem))
          p5 == emit(p4, JMP_IMM(JMP_JEQ, BPF_REG_0, 0, 4))
          p6 == emit(p5, MOV(BPF_REG_1, BPF_REG_10))
          p7 == emit(p6, ALU_IMM(ALU_OP_ADD, BPF_REG_1, n.dyn.addr))
          p8 == emit(p7, MOV_IMM(BPF_REG_2, n.dyn.size))
          p9 == emit(p8, MOV(BPF_REG_3, BPF_REG_0))
      IN  Ok(emit(p9, CALL(BPF_FUNC_probe_read)))

emit_map_load(p, n) ==
    IF n.parent.type = TYPE_ASSIGN /\ n.parent.op = ALU_OP_MOV
    THEN Ok(p)
    ELSE
      LET p0 == emit_stack_zero(p, n).prog
          p1 == emit_ld_mapfd(p0, BPF_REG_1, node_map_get_fd(n))
          p2 == emit(p1, MOV(BPF_REG_2, BPF_REG_10))
          p3 == emit(p2, ALU_IMM(ALU_OP_ADD, BPF_REG_2, n.rec.dyn.addr))
          p4 == emit(p3, CALL(BPF_FUNC_map_lookup_elem))
          p5 == emit(p4, JMP_IMM(JMP_JEQ, BPF_REG_0, 0, 5))
          p6 == emit(p5, MOV(BPF_REG_1, BPF_REG_10))
          p7 == emit(p6, ALU_IMM(ALU_OP_ADD, BPF_REG_1, n.dyn.addr))
          p8 == emit(p7, MOV_IMM(BPF_REG_2, n.dyn.size))
          p9 == emit(p8, MOV(BPF_REG_3, BPF_REG_0))
      IN  Ok(emit(p9, CALL(BPF_FUNC_probe_read)))

\* the tail of emit_assign: the map_update_elem call sequence
MapUpdate(p, map) ==
    LET p1 == emit_ld_mapfd(p, BPF_REG_1, node_map_get_fd(map))
        p2 == emit(p1, MOV(BPF_REG_2, BPF_REG_10))
        p3 == emit(p2, ALU_IMM(ALU_OP_ADD, BPF_REG_2, map.rec.dyn.addr))
        p4 == emit(p3, MOV(BPF_REG_3, BPF_REG_10))
        p5 == emit(p4, ALU_IMM(ALU_OP_ADD, BPF_REG_3, map.dyn.addr))
        p6 == emit(p5, MOV_IMM(BPF_REG_4, 0))
    IN  emit(p6, CALL(BPF_FUNC_map_update_elem))

\* the end of emit_assign: unless the last transfer failed, the update call
AssignStore(x, map) ==
    IF x.err # 0 THEN x ELSE Ok(MapUpdate(x.prog, map))

\* the in-place operation of a compound assignment, on the assignment's register
AssignAlu(assign) ==
    IF assign.expr.type = TYPE_INT
    THEN ALU_IMM(assign.op, assign.dyn.reg, Trunc32(assign.expr.integer))
    ELSE ALU(assign.op, assign.dyn.reg, assign.expr.dyn.reg)

\* the compound branch after err = emit_xfer(prog, assign, map)
AssignApply(x1, assign) ==
    IF x1.err # 0 THEN x1
    ELSE AssignStore(emit_xfer(emit(x1.prog, AssignAlu(assign)),
                               assign.lval, assign),
                     assign.lval)

\* emit_assign applying the operator before the current value is fetched
emit_assign_alu_first(p, assign) ==
    IF assign.op = ALU_OP_MOV
    THEN AssignStore(IF assign.expr.type = TYPE_INT
                     THEN emit_xfer(p, assign.lval, assign.expr)
                     ELSE Ok(p),
                     assign.lval)
    ELSE AssignStore(emit_xfer(emit_xfer(emit(p, AssignAlu(assign)),
                                         assign, assign.lval).prog,
                               assign.lval, assign),
                     assign.lval)

emit_assign(p, assign) ==
    IF assign.op = ALU_OP_MOV
    THEN AssignStore(IF assign.expr.type = TYPE_INT
                     THEN emit_xfer(p, assign.lval, assign.expr)
                     ELSE Ok(p),
                     assign.lval)
    ELSE AssignApply(emit_xfer(p, assign, assign.lval), assign)

(***************************************************************************)
(* The dispatch walker.  A walk hands back the buffer, the int returned,   *)
(* the _e() line, and fault: whether some emitter called on the way        *)
(* returned non-zero (whether or not its caller looked at it).             *)
(***************************************************************************)
WRes(r, f) == [prog |-> r.prog, err |-> r.err, diag |-> r.diag, fault |-> f]

Unable == "unable to compile %s <%s>"

compile_pre(n, p) == Ok(p)

\* err = f(...): the callee's result becomes compile_post's
Kept(x) == WRes(x, x.err # 0)

\* f(...) called and its result not looked at: err stays 0
Dropped(x) == WRes(Ok(x.prog), x.err # 0)

compile_post(n, p) ==
    CASE n.type = TYPE_INT -> WRes(Ok(p), FALSE)
      [] n.type = TYPE_STR -> Dropped(emit_xfer(p, n, n))
      [] n.type = TYPE_REC -> WRes(Ok(p), FALSE)
      [] n.type = TYPE_MAP -> Kept(emit_map_load(p, n))
      [] n.type \in {TYPE_NOT, TYPE_BINOP, TYPE_RETURN} -> WRes(Ok(p), FALSE)
      [] n.type = TYPE_ASSIGN -> Kept(emit_assign(p, n))
      [] n.type = TYPE_CALL ->
            Kept(Res(p \o n.pvdr.insns, n.pvdr.err, n.pvdr.diag))
      [] n.type \in {TYPE_PROBE, TYPE_SCRIPT, TYPE_NONE} ->
            WRes(Res(p, -ENOSYS, Unable), TRUE)
      [] OTHER -> WRes(Ok(p), FALSE)

\* the children node_walk descends into, in order
Children(n) ==
    CASE n.type = TYPE_MAP -> <<n.rec>>
      [] n.type \in {TYPE_REC, TYPE_CALL} -> n.vargs
      [] n.type = TYPE_ASSIGN -> <<n.lval, n.expr>>
      [] n.type \in {TYPE_NOT, TYPE_RETURN} -> <<n.expr>>
      [] n.type = TYPE_BINOP -> <<n.left, n.right>>
      [] OTHER -> <<>>

RECURSIVE node_walk(_, _)
RECURSIVE WalkKids(_, _, _, _)

\* after the do_walk() of child i returned r: leave on error, else go on
KidsNext(kids, i, f, r) ==
    IF r.err # 0 THEN WRes(r, f \/ r.fault)
    ELSE WalkKids(kids, i + 1, r.prog, f \/ r.fault)

\* the do_walk() of each child in turn, returning at the first error
WalkKids(kids, i, p, f) ==
    IF i > Len(kids) THEN WRes(Ok(p), f)
    ELSE KidsNext(kids, i, f, node_walk(kids[i], p))

\* return post(n, ctx), the children's walk having returned sub
WalkPost(n, sub) ==
    IF sub.err # 0 THEN sub
    ELSE [compile_post(n, sub.prog) EXCEPT !.fault = @ \/ sub.fault]

\* the children, pre(n, ctx) having returned
WalkAfterPre(n, pre) ==
    IF pre.err # 0 THEN WRes(pre, TRUE)
    ELSE WalkPost(n, WalkKids(Children(n), 1, pre.prog, FALSE))

node_walk(n, p) == WalkAfterPre(n, compile_pre(n, p))

compile_walk(n, p) == node_walk(n, p)

(***************************************************************************)
(* The predicate gate.                                                     *)
(***************************************************************************)
PredUnknown == "unknown predicate location"

\* the branch of the gate, by where the predicate's value is
PredBranch(pred, p) ==
    CASE pred.dyn.loc = LOC_REG ->
            emit(p, JMP_IMM(JMP_JNE, pred.dyn.reg, 0, 2))
      [] pred.dyn.loc = LOC_STACK ->
            emit(emit(p, LDXDW(BPF_REG_0, pred.dyn.addr, BPF_REG_10)),
                 JMP_IMM(JMP_JNE, BPF_REG_0, 0, 2))
      [] OTHER ->
            IF pred.integer # I64(0, 0)
            THEN emit(p, JMP_IMM(JMP_JA, 0, 0, 2))
            ELSE p

\* compile_pred testing a register-resident predicate for zero
PredGate_jeq(pred, w) ==
    IF w.err # 0 THEN w
    ELSE IF pred.dyn.loc = LOC_NOWHERE /\ pred.type # TYPE_INT
    THEN WRes(Res(w.prog, -EINVAL, PredUnknown), TRUE)
    ELSE IF pred.dyn.loc = LOC_REG
    THEN WRes(Ok(emit(emit(emit(w.prog,
                 JMP_IMM(JMP_JEQ, pred.dyn.reg, 0, 2)),
                 MOV_IMM(BPF_REG_0, 0)), EXIT)), w.fault)
    ELSE WRes(Ok(emit(emit(PredBranch(pred, w.prog),
                           MOV_IMM(BPF_REG_0, 0)), EXIT)), w.fault)

\* compile_pred after err = compile_walk(pred, prog) returned w
PredGate(pred, w) ==
    IF w.err # 0 THEN w
    ELSE IF pred.dyn.loc = LOC_NOWHERE /\ pred.type # TYPE_INT
    THEN WRes(Res(w.prog, -EINVAL, PredUnknown), TRUE)
    ELSE WRes(Ok(emit(emit(PredBranch(pred, w.prog),
                           MOV_IMM(BPF_REG_0, 0)), EXIT)), w.fault)

compile_pred(pred, p) ==
    IF pred.type = NULL.type THEN WRes(Ok(p), FALSE)
    ELSE PredGate(pred, compile_walk(pred, p))

(***************************************************************************)
(* What the generated instructions do when run: the 64-bit ALU and jump    *)
(* semantics of the target machine, on [hi, lo] registers.                 *)
(***************************************************************************)
\* a 32-bit immediate sign-extended to 64 bits
SignExt(imm) == I64(IF imm < 0 THEN -1 ELSE 0, imm)

RECURSIVE OrNat(_, _)
OrNat(a, b) ==
    IF a = 0 THEN b
    ELSE IF b = 0 THEN a
    ELSE (IF a % 2 = 1 \/ b % 2 = 1 THEN 1 ELSE 0) + 2 * OrNat(a \div 2, b \div 2)

\* the low 31 bits of a 32-bit pattern
Low31(x) == IF x < 0 THEN (x + MaxInt32) + 1 ELSE x

Or32(a, b) ==
    LET low == OrNat(Low31(a), Low31(b))
    IN  IF a < 0 \/ b < 0 THEN (low - MaxInt32) - 1 ELSE low

\* the destination register after one alu64 instruction with an immediate
ExecAluK(insn, r) ==
    CASE insn.code[2] = ALU_OP_MOV -> SignExt(insn.imm)
      [] insn.code[2] = ALU_OP_LSH /\ insn.imm = 32 -> I64(r.lo, 0)
      [] insn.code[2] = ALU_OP_OR ->
            I64(Or32(r.hi, SignExt(insn.imm).hi), Or32(r.lo, insn.imm))
      [] OTHER -> r

RECURSIVE RunAluK(_, _, _)
RunAluK(insns, i, r) ==
    IF i > Len(insns) THEN r
    ELSE RunAluK(insns, i + 1, ExecAluK(insns[i], r))

\* where control goes after the instruction at ip, the register a
\* conditional branch tests holding v; 0 once the program has exited
NextIp(insns, ip, v) ==
    LET i == insns[ip] IN
    CASE i.code[1] = "jmp" /\ i.code[2] = "exit" -> 0
      [] i.code[1] = "jmp" /\ i.code[2] = JMP_JA -> ip + 1 + i.off
      [] i.code[1] = "jmp" /\ i.code[2] = JMP_JEQ ->
            IF v = i.imm THEN ip + 1 + i.off ELSE ip + 1
      [] i.code[1] = "jmp" /\ i.code[2] = JMP_JNE ->
            IF v # i.imm THEN ip + 1 + i.off ELSE ip + 1
      [] OTHER -> ip + 1

\* the instruction slots control passes through from ip on, up to and
\* including the first slot outside insns (or 0, the exit)
RECURSIVE Path(_, _, _)
Path(insns, ip, v) ==
    IF ip \in 1 .. Len(insns)
    THEN {ip} \cup Path(insns, NextIp(insns, ip, v), v)
    ELSE {ip}

(***************************************************************************)
(* Bounded inputs.                                                         *)
(***************************************************************************)
MaxSlots    == 2
MaxRegs     == 2
MaxStrDw    == 1

\* r0 and the first callee-saved registers, r6 on
Regs   == {BPF_REG_0} \cup (6 .. (5 + MaxRegs))
Addrs  == {-(SizeofInt64 * i) : i \in 1 .. MaxSlots}
Halves == {0, 1, 2, -1, MaxInt32, MinInt32}
Ints   == {I64(h, l) : h \in Halves, l \in Halves}

DynReg(r)       == Dyn(LOC_REG, r, 0, SizeofInt64)
DynStack(a, sz) == Dyn(LOC_STACK, 0, a, sz)
DynNowhere(sz)  == Dyn(LOC_NOWHERE, 0, 0, sz)

\* the locations a 64-bit value can have been given
Dyns == {DynReg(r) : r \in Regs} \cup {DynStack(a, SizeofInt64) : a \in Addrs}
          \cup {DynNowhere(SizeofInt64)}

\* string literals: their size is a whole number of 8-byte strides
StrWords == UNION {[1 .. 2 * k -> {1, -1}] : k \in 1 .. MaxStrDw}
StrDyns(w) == {DynStack(a, SizeofInt32 * Len(w)) : a \in Addrs}
                \cup {DynNowhere(SizeofInt32 * Len(w))}

IntNodes == {IntNode(v, DynNowhere(SizeofInt64)) : v \in Ints}
StrNodes == UNION {{StrNode(w, d) : d \in StrDyns(w)} : w \in StrWords}
\* values computed at run time (a call's result), wherever they were put
ValNodes == {CallNode([insns |-> <<>>, err |-> 0, diag |-> ""], <<>>, d) : d \in Dyns}

Prefixes == {<<>>, <<MOV(BPF_REG_9, BPF_REG_1)>>}

\* the instructions appended since the call began
Emitted == SubSeq(prog, Len(node.before) + 1, Len(prog))

\* the call under way returns r
Return(r) ==
    /\ prog' = r.prog
    /\ err' = r.err
    /\ diag' = r.diag
    /\ failed' = r.fault
    /\ pc' = "returned"
    /\ ret' = "int"
    /\ UNCHANGED <<node, stmt, trail>>

Idle ==
    /\ stmt = 0 /\ err = 0 /\ diag = "" /\ ret = "none"
    /\ trail = <<>> /\ failed = FALSE

(***************************************************************************)
(* emit_xfer applied to every destination and source.                      *)
(***************************************************************************)
InitXfer ==
    /\ node \in [to : ValNodes, from : IntNodes \cup StrNodes \cup ValNodes,
                 before : Prefixes]
    /\ prog = node.before
    /\ pc = "emit_xfer"
    /\ Idle

XferCall ==
    /\ pc = "emit_xfer"
    /\ Return(Kept(emit_xfer(prog, node.to, node.from)))

NextXfer == XferCall

SpecXfer == InitXfer /\ [][NextXfer]_vars

(***************************************************************************)
(* Claims on emit_xfer (SpecXfer).                                         *)
(***************************************************************************)
Returned == pc = "returned"

IsLiteral(n) == n.type \in {TYPE_INT, TYPE_STR}

\* C2, as stated: a transfer to a destination whose location is unresolved
\* returns the unknown-destination error (-EINVAL, reported as "destination
\* of ... is unknown") whatever the source is, and appends no instruction.
C2_UnknownDestinationAlways ==
    (Returned /\ node.to.dyn.loc = LOC_NOWHERE) =>
        /\ err = -EINVAL
        /\ diag = DestUnknown
        /\ prog = node.before

\* C2, amended: a transfer to an unresolved destination always fails with
\* -EINVAL and appends no instruction; the error is the unknown-destination
\* one for a literal, register-resident or stack-resident source, and the
\* unknown-source one for a non-literal source that is itself unresolved.
C2_UnresolvedDestinationFails ==
    (Returned /\ node.to.dyn.loc = LOC_NOWHERE) =>
        /\ err = -EINVAL
        /\ prog = node.before
        /\ diag = IF ~IsLiteral(node.from) /\ node.from.dyn.loc = LOC_NOWHERE
                  THEN SrcUnknown ELSE DestUnknown

C2_Witness ==
    /\ Returned
    /\ node.to.dyn.loc = LOC_NOWHERE
    /\ node.from.type = TYPE_CALL
    /\ node.from.dyn.loc = LOC_REG
    /\ node.before # <<>>
    /\ err = -EINVAL
    /\ diag = DestUnknown

\* an integer literal above 0xffffffff going to a register
WideToReg ==
    /\ Returned
    /\ node.from.type = TYPE_INT
    /\ node.to.dyn.loc = LOC_REG
    /\ GT64(node.from.integer, UINT32_MAX64)

\* C3: for an integer literal L > 0xffffffff transferred to register r the
\* three instructions are: load the high 32 bits of L into r, shift r left
\* by 32, or r with the low 32 bits of L; run, they leave r equal to L.
C3_WideLiteralCombinesHalves ==
    WideToReg =>
        LET L == node.from.integer
            r == node.to.dyn.reg
        IN  /\ Emitted = << MOV_IMM(r, L.hi),
                            ALU_IMM(ALU_OP_LSH, r, 32),
                            ALU_IMM(ALU_OP_OR, r, L.lo) >>
            /\ RunAluK(Emitted, 1, I64(0, 0)) = L

\* the 32-bit immediate field holds L: L is the field read as an unsigned
\* or as a signed 32-bit number
ImmHolds(imm, L) ==
    /\ imm = L.lo
    /\ \/ L.hi = 0
       \/ L.hi = -1 /\ L.lo < 0

\* C4: an integer literal L transferred to a register: if L <= 0xffffffff
\* exactly one immediate load is emitted and its immediate field equals L;
\* if L > 0xffffffff exactly three instructions are emitted (immediate load,
\* shift left by 32, or), all on the destination register.
C4_LiteralToRegister ==
    (Returned /\ node.from.type = TYPE_INT /\ node.to.dyn.loc = LOC_REG) =>
        LET L == node.from.integer
            r == node.to.dyn.reg
        IN  /\ err = 0
            /\ IF GT64(L, UINT32_MAX64)
               THEN /\ Len(Emitted) = 3
                    /\ Emitted[1].code = <<"alu64", ALU_OP_MOV, "k">>
                    /\ Emitted[2].code = <<"alu64", ALU_OP_LSH, "k">>
                    /\ Emitted[2].imm = 32
                    /\ Emitted[3].code = <<"alu64", ALU_OP_OR, "k">>
                    /\ \A i \in 1 .. 3 : Emitted[i].dst_reg = r
               ELSE /\ Len(Emitted) = 1
                    /\ Emitted[1].code = <<"alu64", ALU_OP_MOV, "k">>
                    /\ Emitted[1].dst_reg = r
                    /\ ImmHolds(Emitted[1].imm, L)

(***************************************************************************)
(* emit_map_load applied to map references under every kind of parent.     *)
(***************************************************************************)
MaxValDw == 2
MaxFd    == 4

Fds == 3 .. MaxFd

\* what n->parent is: an assignment with its operator, or another kind
Parents == {[type |-> TYPE_ASSIGN, op |-> o] :
                o \in {ALU_OP_MOV, ALU_OP_ADD, ALU_OP_SUB, ALU_OP_OR}}
             \cup {[type |-> t] : t \in {TYPE_PROBE, TYPE_BINOP, TYPE_CALL, TYPE_NOT}}

\* key records, already on the stack
KeyRecs == {RecNode(<<>>, DynStack(a, SizeofInt64)) : a \in Addrs}

\* where a map value of k double-words can have been put
MapDyns == {Dyn(l, r, a, SizeofInt64 * k) :
                l \in {LOC_STACK}, r \in {0}, a \in Addrs, k \in 1 .. MaxValDw}
            \cup {DynReg(r) : r \in Regs} \cup {DynNowhere(SizeofInt64)}

InitMapLoad ==
    /\ node \in [n : {MapNode(k, fd, par, d) :
                        k \in KeyRecs, fd \in Fds, par \in Parents, d \in MapDyns},
                 before : Prefixes]
    /\ prog = node.before
    /\ pc = "emit_map_load"
    /\ Idle

MapLoadCall ==
    /\ pc = "emit_map_load"
    /\ Return(Kept(emit_map_load(prog, node.n)))

NextMapLoad == MapLoadCall

SpecMapLoad == InitMapLoad /\ [][NextMapLoad]_vars

\* the zero-fill of n's stack region, as the claims describe it
ZeroFillOf(n) ==
    <<MOV_IMM(BPF_REG_0, 0)>> \o
    [i \in 1 .. ((n.dyn.size + SizeofInt64 - 1) \div SizeofInt64) |->
        STXDW(BPF_REG_10, n.dyn.addr + SizeofInt64 * (i - 1), BPF_REG_0)]

\* the lookup-helper call with r1 = map handle, r2 = frame pointer + key offset
LookupOf(n) ==
    << INSN(<<"ld", "dw", "imm">>, BPF_REG_1, BPF_PSEUDO_MAP_FD, 0, n.fd),
       MOV(BPF_REG_2, BPF_REG_10),
       ALU_IMM(ALU_OP_ADD, BPF_REG_2, n.rec.dyn.addr),
       CALL(BPF_FUNC_map_lookup_elem) >>

\* probe_read with r1 = frame pointer + value offset, r2 = size, r3 = r0
CopyOf(n) ==
    << MOV(BPF_REG_1, BPF_REG_10),
       ALU_IMM(ALU_OP_ADD, BPF_REG_1, n.dyn.addr),
       MOV_IMM(BPF_REG_2, n.dyn.size),
       MOV(BPF_REG_3, BPF_REG_0),
       CALL(BPF_FUNC_probe_read) >>

PlainOverwrite(n) == n.parent.type = TYPE_ASSIGN /\ n.parent.op = ALU_OP_MOV

\* the whole load sequence, as the claims describe it
MapLoadOf(n) ==
    ZeroFillOf(n) \o LookupOf(n)
      \o <<JMP_IMM(JMP_JEQ, BPF_REG_0, 0, Len(CopyOf(n)))>> \o CopyOf(n)

\* C6: emit_map_load emits nothing if and only if the value node's parent
\* is an assignment with operator move; otherwise it emits, in order, the
\* zero-fill, the lookup call, a branch on r0 = 0 to the first instruction
\* after the copy, and the probe_read copy; run, probe_read is called if
\* and only if the lookup returned a non-null pointer.
C6_MapLoad ==
    (pc = "returned" /\ node.n.type = TYPE_MAP) =>
        LET n   == node.n
            br  == Len(ZeroFillOf(n)) + Len(LookupOf(n)) + 1
            cp  == Len(Emitted)
        IN  /\ err = 0
            /\ (Emitted = <<>>) <=> PlainOverwrite(n)
            /\ ~PlainOverwrite(n) =>
                 /\ Emitted = MapLoadOf(n)
                 /\ Emitted[br].code = <<"jmp", JMP_JEQ, "k">>
                 /\ NextIp(Emitted, br, 0) = Len(Emitted) + 1
                 /\ Emitted[cp] = CALL(BPF_FUNC_probe_read)
                 /\ \A v \in {0, 1} :
                      /\ (cp \in Path(Emitted, br, v)) <=> (v # 0)
                      /\ (Len(Emitted) + 1) \in Path(Emitted, br, v)

C6_Witness ==
    /\ pc = "returned"
    /\ node.n.type = TYPE_MAP
    /\ node.n.parent.type = TYPE_ASSIGN
    /\ node.n.parent.op = ALU_OP_ADD
    /\ node.n.dyn.size = 2 * SizeofInt64
    /\ Len(Emitted) = 13

(***************************************************************************)
(* compile_pred applied to every kind of predicate.                        *)
(***************************************************************************)
PvdrFails == "provider"

\* what a provider's compile() can do: emit its call and succeed, or fail
Pvdrs == {[insns |-> <<CALL(BPF_FUNC_ktime_get_ns)>>, err |-> 0, diag |-> ""],
          [insns |-> <<>>, err |-> -EINVAL, diag |-> PvdrFails]}

PredInts == {I64(0, 0), I64(0, 1), I64(1, 0), I64(-1, -1)}

Preds ==
    {NULL}
      \cup {IntNode(v, d) : v \in PredInts, d \in Dyns}
      \cup {CallNode(pv, <<>>, d) : pv \in Pvdrs, d \in Dyns}
      \cup StrNodes
      \cup {UnaryNode(TYPE_NOT, IntNode(I64(0, 1), DynNowhere(SizeofInt64)), d) :
                d \in Dyns}
      \cup {BinopNode(IntNode(I64(0, 1), DynNowhere(SizeofInt64)),
                      CallNode(pv, <<>>, DynReg(BPF_REG_0)), d) :
                pv \in Pvdrs, d \in Dyns}
      \cup {PlainNode(TYPE_NONE, d) : d \in Dyns}

InitPred ==
    /\ node \in [pred : Preds, before : Prefixes]
    /\ prog = node.before
    /\ pc = "compile_pred"
    /\ Idle

PredCall ==
    /\ pc = "compile_pred"
    /\ Return(compile_pred(node.pred, prog))

NextPred == PredCall

SpecPred == InitPred /\ [][NextPred]_vars

ExitPair == <<MOV_IMM(BPF_REG_0, 0), EXIT>>

\* the gate the claim describes for a predicate that compiled
GateOf(pred) ==
    CASE pred.dyn.loc = LOC_REG ->
            <<JMP_IMM(JMP_JNE, pred.dyn.reg, 0, 2)>> \o ExitPair
      [] pred.dyn.loc = LOC_STACK ->
            <<LDXDW(BPF_REG_0, pred.dyn.addr, BPF_REG_10),
              JMP_IMM(JMP_JNE, BPF_REG_0, 0, 2)>> \o ExitPair
      [] OTHER ->
            IF pred.integer # I64(0, 0)
            THEN <<JMP_IMM(JMP_JA, 0, 0, 2)>> \o ExitPair
            ELSE ExitPair

\* the values the predicate can have when the gate runs
PredValues(pred) ==
    IF pred.dyn.loc = LOC_NOWHERE
    THEN {IF pred.integer = I64(0, 0) THEN 0 ELSE 1}
    ELSE {0, 1}

PredPresent == node.pred.type # NULL.type

\* the gate of a predicate that compiled: its shape, where its skip branch
\* lands, and what running it does
GateRight ==
    (pc = "returned" /\ PredPresent /\ err = 0) =>
        LET pred == node.pred
            g    == GateOf(pred)
            n    == Len(Emitted)
            s    == n - Len(g) + 1
        IN  /\ n >= Len(g)
            /\ SubSeq(Emitted, s, n) = g
            /\ pred.type = TYPE_INT /\ pred.dyn.loc = LOC_NOWHERE => Emitted = g
            /\ Len(g) > 2 => NextIp(Emitted, n - 2, 1) = n + 1
            /\ \A v \in PredValues(pred) :
                 /\ (n \in Path(Emitted, s, v)) <=> (v = 0)
                 /\ ((n + 1) \in Path(Emitted, s, v)) <=> (v # 0)

AbsentRight ==
    (pc = "returned" /\ ~PredPresent) => (Emitted = <<>> /\ err = 0)

UnresolvedNonLiteral ==
    /\ pc = "returned"
    /\ PredPresent
    /\ node.pred.dyn.loc = LOC_NOWHERE
    /\ node.pred.type # TYPE_INT

\* C5, as stated: a predicate that compiles gets a gate ending in (load 0
\* into r0, exit) whose skip branch lands right after the exit, so that the
\* exit is reached exactly when the predicate is zero; an absent predicate
\* emits nothing; an unresolved non-literal predicate fails with the
\* invalid-predicate-location error.
C5_PredicateGate ==
    /\ GateRight
    /\ AbsentRight
    /\ UnresolvedNonLiteral => (err = -EINVAL /\ diag = PredUnknown)

\* C5, amended: as stated, except that an unresolved non-literal predicate
\* fails with the invalid-predicate-location error only when its own code
\* generation succeeded; when walking the predicate fails, that error is
\* the one returned.
C5_PredicateGateAfterWalk ==
    /\ GateRight
    /\ AbsentRight
    /\ UnresolvedNonLiteral =>
         LET w == compile_walk(node.pred, node.before)
         IN  IF w.err # 0
             THEN err = w.err /\ diag = w.diag /\ diag # PredUnknown
             ELSE err = -EINVAL /\ diag = PredUnknown

C5_Witness ==
    /\ pc = "returned"
    /\ node.pred.type = TYPE_CALL
    /\ node.pred.dyn.loc = LOC_STACK
    /\ err = 0
    /\ Len(Emitted) = 5
    /\ Emitted[5] = EXIT

(***************************************************************************)
(* compile_walk applied to assignments to a map.                           *)
(***************************************************************************)
AssignOps  == {ALU_OP_MOV, ALU_OP_ADD, ALU_OP_SUB, ALU_OP_OR}
AssignInts == {I64(0, 5), I64(-1, -1), I64(1, 2)}

\* key records: empty, or holding one string literal already given its slot
AssignKeys ==
    KeyRecs \cup
    {RecNode(<<StrNode(<<1, -1>>, DynStack(a, SizeofInt64))>>,
             DynStack(a, SizeofInt64)) : a \in Addrs}

AssignExprs == {IntNode(c, DynNowhere(SizeofInt64)) : c \in AssignInts}
                 \cup {CallNode(pv, <<>>, DynReg(BPF_REG_0)) : pv \in Pvdrs}

Assigns ==
    {AssignNode(o, MapNode(k, 3, [type |-> TYPE_ASSIGN, op |-> o], md), e, ad) :
        o \in AssignOps, k \in AssignKeys, md \in MapDyns, e \in AssignExprs,
        ad \in Dyns}

InitWalk ==
    /\ node \in [n : Assigns, before : {<<MOV(BPF_REG_9, BPF_REG_1)>>}]
    /\ prog = node.before
    /\ pc = "compile_walk"
    /\ Idle

WalkCall ==
    /\ pc = "compile_walk"
    /\ Return(compile_walk(node.n, prog))

NextWalk == WalkCall

SpecWalk == InitWalk /\ [][NextWalk]_vars

\* the code of the key record's components: a string literal's word stores
KeyCodeOf(rec) ==
    IF rec.vargs = <<>> THEN <<>>
    ELSE LET k == rec.vargs[1]
         IN  [i \in 1 .. Len(k.string) |->
                STW_IMM(BPF_REG_10, k.dyn.addr + SizeofInt32 * (i - 1), k.string[i])]

\* a transfer between two located values that has no rule or no place
XferFails(to, from) ==
    \/ to.dyn.loc = LOC_NOWHERE
    \/ from.dyn.loc = LOC_NOWHERE
    \/ to.dyn.loc = LOC_STACK /\ from.dyn.loc = LOC_STACK

\* the transfer of a located value, as section 4.2 of the design gives it
XferOf(to, from) ==
    CASE to.dyn.loc = LOC_REG /\ from.dyn.loc = LOC_REG ->
            IF to.dyn.reg = from.dyn.reg THEN <<>>
            ELSE <<MOV(to.dyn.reg, from.dyn.reg)>>
      [] to.dyn.loc = LOC_STACK /\ from.dyn.loc = LOC_REG ->
            <<STXDW(BPF_REG_10, to.dyn.addr, from.dyn.reg)>>
      [] to.dyn.loc = LOC_REG /\ from.dyn.loc = LOC_STACK ->
            <<LDXDW(to.dyn.reg, from.dyn.addr, BPF_REG_10)>>
      [] OTHER -> <<>>

\* the update-helper call: r1 = map handle, r2 = fp + key offset,
\* r3 = fp + value offset, r4 = 0
UpdateOf(m) ==
    << INSN(<<"ld", "dw", "imm">>, BPF_REG_1, BPF_PSEUDO_MAP_FD, 0, m.fd),
       MOV(BPF_REG_2, BPF_REG_10),
       ALU_IMM(ALU_OP_ADD, BPF_REG_2, m.rec.dyn.addr),
       MOV(BPF_REG_3, BPF_REG_10),
       ALU_IMM(ALU_OP_ADD, BPF_REG_3, m.dyn.addr),
       MOV_IMM(BPF_REG_4, 0),
       CALL(BPF_FUNC_map_update_elem) >>

CompoundLiteral ==
    /\ pc = "returned"
    /\ node.n.type = TYPE_ASSIGN
    /\ node.n.op # ALU_OP_MOV
    /\ node.n.expr.type = TYPE_INT

MaxStmts == 2

Slot1 == -SizeofInt64
Lit(v) == IntNode(v, DynNowhere(SizeofInt64))
Key1 == RecNode(<<>>, DynStack(Slot1, SizeofInt64))
MapAt(o, d) == MapNode(Key1, 3, [type |-> TYPE_ASSIGN, op |-> o], d)

\* the statements a probe is built from
ProbeStmts ==
    { AssignNode(ALU_OP_MOV, MapAt(ALU_OP_MOV, DynStack(Slot1, SizeofInt64)),
                 Lit(I64(0, 1)), DynNowhere(SizeofInt64)),
      AssignNode(ALU_OP_ADD, MapAt(ALU_OP_ADD, DynStack(Slot1, SizeofInt64)),
                 Lit(I64(0, 5)), DynReg(BPF_REG_0)),
      AssignNode(ALU_OP_ADD, MapAt(ALU_OP_ADD, DynStack(Slot1, SizeofInt64)),
                 Lit(I64(0, 5)), DynStack(Slot1, SizeofInt64)),
      AssignNode(ALU_OP_MOV, MapAt(ALU_OP_MOV, DynNowhere(SizeofInt64)),
                 Lit(I64(0, 1)), DynNowhere(SizeofInt64)),
      StrNode(<<1, -1>>, DynStack(Slot1, SizeofInt64)),
      StrNode(<<1, -1>>, DynNowhere(SizeofInt64)),
      UnaryNode(TYPE_RETURN, Lit(I64(0, 1)), DynNowhere(SizeofInt64)),
      UnaryNode(TYPE_NOT, Lit(I64(0, 1)), DynReg(BPF_REG_0)),
      BinopNode(Lit(I64(0, 1)), Lit(I64(0, 2)), DynReg(BPF_REG_0)),
      PlainNode(TYPE_NONE, DynNowhere(SizeofInt64)),
      MapNode(Key1, 3, [type |-> TYPE_PROBE], DynStack(Slot1, SizeofInt64)) }
      \cup {CallNode(pv, <<>>, DynReg(BPF_REG_0)) : pv \in Pvdrs}

ProbePreds ==
    { NULL, Lit(I64(0, 0)), Lit(I64(0, 1)) }
      \cup {CallNode(pv, <<>>, DynReg(6)) : pv \in Pvdrs}
      \cup {UnaryNode(TYPE_NOT, Lit(I64(0, 1)), DynNowhere(SizeofInt64))}

\* statement lists are never empty
StmtLists == UNION {[1 .. k -> ProbeStmts] : k \in 1 .. MaxStmts}

Init ==
    /\ node \in [pred : ProbePreds, stmts : StmtLists]
    /\ prog = <<>>
    /\ pc = "calloc"
    /\ Idle

\* prog = calloc(...); on success the context pointer is moved to r9
Calloc ==
    /\ pc = "calloc"
    /\ \/ /\ prog' = emit(prog, MOV(BPF_REG_9, BPF_REG_1))
          /\ pc' = "pred"
          /\ ret' = ret
       \/ /\ prog' = prog
          /\ pc' = "done"
          /\ ret' = "NULL"
    /\ UNCHANGED <<node, stmt, err, diag, trail, failed>>

\* err = compile_pred(probe->probe.pred, prog)
PredDone(r) ==
    /\ prog' = r.prog
    /\ err' = r.err
    /\ diag' = r.diag
    /\ failed' = r.fault
    /\ pc' = IF r.err # 0 THEN "err_free" ELSE "stmts"
    /\ stmt' = 1
    /\ UNCHANGED <<node, ret, trail>>

PredStep ==
    /\ pc = "pred"
    /\ PredDone(compile_pred(node.pred, prog))

\* one turn of node_foreach: walk the statement, leave on error or at the end
StmtDone(r) ==
    /\ prog' = r.prog
    /\ err' = r.err
    /\ diag' = r.diag
    /\ failed' = (failed \/ r.fault)
    /\ trail' = Append(trail, [stmt |-> stmt, end |-> Len(r.prog)])
    /\ pc' = IF r.err # 0 THEN "err_free"
             ELSE IF stmt = Len(node.stmts) THEN "tail"
             ELSE "stmts"
    /\ stmt' = IF r.err = 0 /\ stmt < Len(node.stmts) THEN stmt + 1 ELSE stmt
    /\ UNCHANGED <<node, ret>>

StmtStep ==
    /\ pc = "stmts"
    /\ StmtDone(compile_walk(node.stmts[stmt], prog))

\* compile_probe ending every program with the exit pair
TailStep_always ==
    /\ pc = "tail"
    /\ prog' = emit(emit(prog, MOV_IMM(BPF_REG_0, 0)), EXIT)
    /\ ret' = "prog"
    /\ pc' = "done"
    /\ UNCHANGED <<node, stmt, err, diag, trail, failed>>

\* if (stmt->type == TYPE_RETURN) return prog; else the (mov r0 0, exit) tail
TailStep ==
    /\ pc = "tail"
    /\ prog' = IF node.stmts[stmt].type = TYPE_RETURN THEN prog
               ELSE emit(emit(prog, MOV_IMM(BPF_REG_0, 0)), EXIT)
    /\ ret' = "prog"
    /\ pc' = "done"
    /\ UNCHANGED <<node, stmt, err, diag, trail, failed>>

\* err_free: free(prog); return NULL
ErrFree ==
    /\ pc = "err_free"
    /\ prog' = <<>>
    /\ ret' = "NULL"
    /\ pc' = "done"
    /\ UNCHANGED <<node, stmt, err, diag, trail, failed>>

Next == Calloc \/ PredStep \/ StmtStep \/ TailStep \/ ErrFree

Spec == Init /\ [][Next]_vars

(***************************************************************************)
(* Claims on compile_probe (Spec).                                         *)
(***************************************************************************)
\* C1: if code generation for any visited node fails (the transfer of a
\* string literal included), the traversal stops there, no later statement
\* is compiled, and compile_probe returns NULL.
C1_FailFast ==
    failed =>
        /\ pc \in {"err_free", "done"}
        /\ pc = "done" => ret = "NULL"

\* C7: for a statement list that compiles without error the statements are
\* walked in order, once each; after the code of the last one exactly
\* (mov r0 0, exit) is appended if it is not a return node, and nothing if
\* it is.
C7_ImplicitReturn ==
    (pc = "done" /\ ret = "prog") =>
        LET n == Len(node.stmts)
            e == trail[n].end
        IN  /\ Len(trail) = n
            /\ \A i \in 1 .. n : trail[i].stmt = i
            /\ \A i \in 1 .. n - 1 : trail[i].end <= trail[i + 1].end
            /\ IF node.stmts[n].type = TYPE_RETURN
               THEN Len(prog) = e
               ELSE /\ Len(prog) = e + 2
                    /\ SubSeq(prog, e + 1, e + 2) = ExitPair

C7_Witness ==
    /\ pc = "done"
    /\ ret = "prog"
    /\ Len(node.stmts) = 2
    /\ node.stmts[1].type = TYPE_ASSIGN
    /\ node.stmts[2].type = TYPE_RETURN
    /\ trail[1].end > 1
    /\ Len(prog) = trail[2].end

\* the statement walked last is of kind k
Walked(k) ==
    /\ trail # <<>>
    /\ node.stmts[trail[Len(trail)].stmt].type = k

\* the statement walked last is a compound assignment between two stack slots
WalkedStackToStack ==
    /\ Walked(TYPE_ASSIGN)
    /\ LET a == node.stmts[trail[Len(trail)].stmt]
       IN  /\ a.op # ALU_OP_MOV
           /\ a.dyn.loc = LOC_STACK
           /\ a.lval.dyn.loc = LOC_STACK

\* C8: a construct without a code-generation rule (a stack-to-stack
\* transfer; a not, binary-op or return node reaching the walker) yields
\* the not-implemented error (-ENOSYS), and the error aborts the probe
\* compilation.
C8_NotImplemented ==
    (\/ Walked(TYPE_NOT) \/ Walked(TYPE_BINOP) \/ Walked(TYPE_RETURN)
     \/ WalkedStackToStack) =>
        /\ err = -ENOSYS
        /\ pc \in {"err_free", "done"}
        /\ pc = "done" => ret = "NULL"

\* C10: every program compile_probe returns begins with the move of the
\* context pointer from r1 to r9 and ends with an exit instruction.
C10_WellFormedProgram ==
    (pc = "done" /\ ret = "prog") =>
        /\ prog # <<>>
        /\ prog[1] = MOV(BPF_REG_9, BPF_REG_1)
        /\ prog[Len(prog)] = EXIT

====
